---- MODULE Spec2Model ----
(***************************************************************************)
(* A model of bytti, a stack-based virtual machine (src/src/main.rs).      *)
(*                                                                         *)
(* The machine's cells are Rust i64 values.  They are modelled exactly, as *)
(* the eight bytes of the two's complement encoding (least significant     *)
(* byte first, as i64::to_le_bytes gives them), so that overflow, the cast *)
(* `as usize` and decimal formatting are computed rather than assumed.     *)
(* The target is taken to have 64-bit pointers: usize is eight bytes too.  *)
(***************************************************************************)
EXTENDS Integers, Sequences, FiniteSets, TLC

(***************************************************************************)
(* i64: representation                                                     *)
(***************************************************************************)

\* The number of bytes of an i64 (and of a usize).
WordBytes == 8

Byte == 0..255

\* The all-zero word.
Zero64 == [k \in 1..WordBytes |-> 0]

\* i64::MAX and i64::MIN.
I64Max == [k \in 1..WordBytes |-> IF k = WordBytes THEN 127 ELSE 255]
I64Min == [k \in 1..WordBytes |-> IF k = WordBytes THEN 128 ELSE 0]

RECURSIVE Pow256(_)
Pow256(k) == IF k = 0 THEN 1 ELSE 256 * Pow256(k - 1)

\* The bytes of a natural number n < 2^31, zero-extended to len bytes.
NatBytes(n, len) ==
    [k \in 1..len |-> IF k <= 4 THEN (n \div Pow256(k - 1)) % 256 ELSE 0]

\* Bitwise complement.
NotBytes(a) == [k \in 1..Len(a) |-> 255 - a[k]]

\* The i64 whose value is the integer n, for -2^31 < n < 2^31.
I64(n) ==
    IF n >= 0 THEN NatBytes(n, WordBytes)
    ELSE NotBytes(NatBytes(-n - 1, WordBytes))

\* The sign bit.
IsNeg(a) == a[Len(a)] >= 128

\* The value of a word whose upper bytes are zero, as a natural number.
ToNat(a) == a[1] + 256 * a[2] + 65536 * a[3] + 16777216 * a[4]

\* Whether a word, read as unsigned, is below 2^31.
IsSmall(a) == a[4] < 128 /\ \A k \in 5..Len(a) : a[k] = 0

(***************************************************************************)
(* i64: arithmetic on the bytes                                            *)
(***************************************************************************)

\* a + b + c on equal-length words, from byte k up, carry c in, carry out dropped.
RECURSIVE AddFrom(_, _, _, _)
AddFrom(a, b, k, c) ==
    IF k > Len(a) THEN <<>>
    ELSE LET s == a[k] + b[k] + c
         IN  <<s % 256>> \o AddFrom(a, b, k + 1, s \div 256)

WrappingAdd(a, b) == AddFrom(a, b, 1, 0)
WrappingSub(a, b) == AddFrom(a, NotBytes(b), 1, 1)
WrappingNeg(a) == AddFrom(NotBytes(a), [k \in 1..Len(a) |-> 0], 1, 1)

\* Signed overflow of a + b and of a - b.
AddOverflows(a, b) == IsNeg(a) = IsNeg(b) /\ IsNeg(WrappingAdd(a, b)) # IsNeg(a)
SubOverflows(a, b) == IsNeg(a) # IsNeg(b) /\ IsNeg(WrappingSub(a, b)) # IsNeg(a)

\* Unsigned comparison, most significant byte first.
RECURSIVE ULtFrom(_, _, _)
ULtFrom(a, b, k) ==
    IF k = 0 THEN FALSE
    ELSE IF a[k] # b[k] THEN a[k] < b[k]
    ELSE ULtFrom(a, b, k - 1)

ULt(a, b) == ULtFrom(a, b, Len(a))
ULe(a, b) == ~ULt(b, a)

\* Signed comparison of two i64.
SLt(a, b) ==
    IF IsNeg(a) # IsNeg(b) THEN IsNeg(a) ELSE ULt(a, b)

\* a * d + c for a word a and a byte d, from byte k up, truncated to Len(a) bytes.
RECURSIVE MulByteFrom(_, _, _, _)
MulByteFrom(a, d, k, c) ==
    IF k > Len(a) THEN <<>>
    ELSE LET p == a[k] * d + c
         IN  <<p % 256>> \o MulByteFrom(a, d, k + 1, p \div 256)

\* A word shifted up by s bytes, truncated to its length.
ShiftBytes(a, s) == [k \in 1..Len(a) |-> IF k <= s THEN 0 ELSE a[k - s]]

\* a * b modulo 256^Len(a): the sum over the bytes b[j] of (a * b[j]) shifted.
RECURSIVE MulFrom(_, _, _)
MulFrom(a, b, j) ==
    IF j > Len(b) THEN [k \in 1..Len(a) |-> 0]
    ELSE AddFrom(ShiftBytes(MulByteFrom(a, b[j], 1, 0), j - 1),
                 MulFrom(a, b, j + 1), 1, 0)

\* Sign extension to twice the width.
SignExtend(a) == a \o [k \in 1..Len(a) |-> IF IsNeg(a) THEN 255 ELSE 0]

\* The exact product of two i64, as a 128-bit two's complement word.
WideMul(a, b) == MulFrom(SignExtend(a), SignExtend(b), 1)

WrappingMul(a, b) == SubSeq(WideMul(a, b), 1, WordBytes)

\* Signed overflow of a * b: the exact product is not the sign extension of its
\* low half.
MulOverflows(a, b) == WideMul(a, b) # SignExtend(WrappingMul(a, b))

RECURSIVE Pow2(_)
Pow2(k) == IF k = 0 THEN 1 ELSE 2 * Pow2(k - 1)

\* (a << 1) | bit, truncated to Len(a) bytes.
RECURSIVE Shl1From(_, _, _)
Shl1From(a, k, c) ==
    IF k > Len(a) THEN <<>>
    ELSE LET s == 2 * a[k] + c
         IN  <<s % 256>> \o Shl1From(a, k + 1, s \div 256)

\* One digit of unsigned long division, by restoring division over bits j..0 of
\* the byte x: <<digit, remainder>> where q and r are the digit and the remainder
\* so far, for r < d <= 2^63.
RECURSIVE DivBitsFrom(_, _, _, _, _)
DivBitsFrom(r, x, d, j, q) ==
    IF j < 0 THEN <<q, r>>
    ELSE LET r1 == Shl1From(r, 1, (x \div Pow2(j)) % 2)
         IN  IF ULe(d, r1)
             THEN DivBitsFrom(WrappingSub(r1, d), x, d, j - 1, 2 * q + 1)
             ELSE DivBitsFrom(r1, x, d, j - 1, 2 * q)

\* Unsigned long division over the bytes of n from the top down to byte k:
\* <<quotient, remainder>> of (n >> 8(k-1)) by d.
RECURSIVE UDivFrom(_, _, _)
UDivFrom(n, d, k) ==
    IF k > Len(n) THEN <<[j \in 1..Len(n) |-> 0], [j \in 1..Len(n) |-> 0]>>
    ELSE LET above == UDivFrom(n, d, k + 1)
             digit == DivBitsFrom(above[2], n[k], d, 7, 0)
         IN  << <<digit[1]>> \o SubSeq(above[1], 1, Len(n) - 1), digit[2] >>

UDiv(n, d) == UDivFrom(n, d, 1)[1]
URem(n, d) == UDivFrom(n, d, 1)[2]

\* The magnitude of an i64 as an unsigned word (2^63 for i64::MIN).
UnsignedAbs(a) == IF IsNeg(a) THEN WrappingNeg(a) ELSE a

\* a / b for b # 0 and not (a = i64::MIN and b = -1): rounds towards zero.
TruncDiv(a, b) ==
    LET q == UDiv(UnsignedAbs(a), UnsignedAbs(b))
    IN  IF IsNeg(a) # IsNeg(b) THEN WrappingNeg(q) ELSE q

(***************************************************************************)
(* i64: casts and formatting                                               *)
(***************************************************************************)

\* The number of bytes of a usize on the target.
UsizeBytes == 8

\* `x as usize`: the low UsizeBytes bytes of x, read as unsigned.
AsUsize(x) == SubSeq(x, 1, UsizeBytes)

\* A Vec length or index n (small in every run of the model) as a usize.
Usize(n) == NatBytes(n, UsizeBytes)

DigitChars == <<"0", "1", "2", "3", "4", "5", "6", "7", "8", "9">>

\* Short division of an unsigned word by a small d, over the bytes of m from the
\* top down to byte k: <<the quotient's bytes k.., the remainder>>.  The bytes
\* above are bound through a singleton set so that they are computed once.
RECURSIVE ShortDivFrom(_, _, _)
ShortDivFrom(m, d, k) ==
    IF k > Len(m) THEN << <<>>, 0 >>
    ELSE CHOOSE qr \in { << <<(256 * above[2] + m[k]) \div d>> \o above[1],
                            (256 * above[2] + m[k]) % d >> :
                         above \in {ShortDivFrom(m, d, k + 1)} } : TRUE

\* The decimal digits of an unsigned word, most significant first; none for zero.
RECURSIVE DecDigits(_)
DecDigits(m) ==
    IF \A k \in 1..Len(m) : m[k] = 0 THEN <<>>
    ELSE CHOOSE ds \in { DecDigits(qr[1]) \o <<DigitChars[qr[2] + 1]>> :
                         qr \in {ShortDivFrom(m, 10, 1)} } : TRUE

\* What `{}` formats an i64 as: its characters, one string per character.
DisplayI64(v) ==
    IF v = Zero64 THEN <<"0">>
    ELSE (IF IsNeg(v) THEN <<"-">> ELSE <<>>) \o DecDigits(UnsignedAbs(v))

(***************************************************************************)
(* Instructions (enum Op) and Option<i64>                                  *)
(***************************************************************************)

Lit(x) == [op |-> "Lit", x |-> x]
Label(label) == [op |-> "Label", label |-> label]
Plain(name) == [op |-> name]

\* The instructions that carry no operand.
PlainOps == {"Add", "Sub", "Mul", "Div", "Load", "Store", "Jmp", "CJmp", "Put",
             "Dup", "Swap", "Eq", "Lt", "Gt"}

\* Option<i64>: None, or Some(v).
None == <<>>
Some(v) == <<v>>

\* Vec::pop: the last element, or None; and the vector it leaves.
Pop(s) == IF s = <<>> THEN None ELSE Some(s[Len(s)])
Popped(s) == IF s = <<>> THEN s ELSE SubSeq(s, 1, Len(s) - 1)

\* Option<i64>'s derived ordering: None is below every Some.
OptionLt(a, b) ==
    IF a = None THEN b # None
    ELSE IF b = None THEN FALSE
    ELSE SLt(a[1], b[1])

(***************************************************************************)
(* The effect of one instruction of the dispatch loop.  flow is "next" (go *)
(* on to `i += 1`), "none" (a `?` returned None from excecute) or "panic". *)
(***************************************************************************)

GoOn(s, m, ip, out) ==
    [flow |-> "next", stack |-> s, memory |-> m, i |-> ip, out |-> out, panic |-> ""]
ReturnNone(s, m, ip) ==
    [flow |-> "none", stack |-> s, memory |-> m, i |-> ip, out |-> <<>>, panic |-> ""]
Abort(why, s, m, ip) ==
    [flow |-> "panic", stack |-> s, memory |-> m, i |-> ip, out |-> <<>>, panic |-> why]

\* Op::Add, Op::Sub, Op::Mul: `a op b` panics on overflow where the build checks
\* for it, and wraps where it does not.
ExecAdd(s, m, ip, checks) ==
    LET a == Pop(s)  s1 == Popped(s)
        b == Pop(s1) s2 == Popped(s1)
    IN  IF a = None THEN ReturnNone(s1, m, ip)
        ELSE IF b = None THEN ReturnNone(s2, m, ip)
        ELSE IF checks /\ AddOverflows(a[1], b[1])
             THEN Abort("attempt to add with overflow", s2, m, ip)
        ELSE GoOn(Append(s2, WrappingAdd(a[1], b[1])), m, ip, <<>>)

\* Sub with its operands the other way round, b - a: what C6 tells from Op::Sub.
ExecSubSwapped(s, m, ip, checks) ==
    LET a == Pop(s)  s1 == Popped(s)
        b == Pop(s1) s2 == Popped(s1)
    IN  IF a = None THEN ReturnNone(s1, m, ip)
        ELSE IF b = None THEN ReturnNone(s2, m, ip)
        ELSE IF checks /\ SubOverflows(b[1], a[1])
             THEN Abort("attempt to subtract with overflow", s2, m, ip)
        ELSE GoOn(Append(s2, WrappingSub(b[1], a[1])), m, ip, <<>>)

ExecSub(s, m, ip, checks) ==
    LET a == Pop(s)  s1 == Popped(s)
        b == Pop(s1) s2 == Popped(s1)
    IN  IF a = None THEN ReturnNone(s1, m, ip)
        ELSE IF b = None THEN ReturnNone(s2, m, ip)
        ELSE IF checks /\ SubOverflows(a[1], b[1])
             THEN Abort("attempt to subtract with overflow", s2, m, ip)
        ELSE GoOn(Append(s2, WrappingSub(a[1], b[1])), m, ip, <<>>)

ExecMul(s, m, ip, checks) ==
    LET a == Pop(s)  s1 == Popped(s)
        b == Pop(s1) s2 == Popped(s1)
    IN  IF a = None THEN ReturnNone(s1, m, ip)
        ELSE IF b = None THEN ReturnNone(s2, m, ip)
        ELSE IF checks /\ MulOverflows(a[1], b[1])
             THEN Abort("attempt to multiply with overflow", s2, m, ip)
        ELSE GoOn(Append(s2, WrappingMul(a[1], b[1])), m, ip, <<>>)

\* A Div with its operands the other way round, b / a: what C16 tells from
\* Op::Div.
ExecDivSwapped(s, m, ip) ==
    LET a == Pop(s)  s1 == Popped(s)
        b == Pop(s1) s2 == Popped(s1)
    IN  IF a = None THEN ReturnNone(s1, m, ip)
        ELSE IF b = None THEN ReturnNone(s2, m, ip)
        ELSE IF a[1] = Zero64
             THEN Abort("attempt to divide by zero", s2, m, ip)
        ELSE IF b[1] = I64Min /\ a[1] = I64(-1)
             THEN Abort("attempt to divide with overflow", s2, m, ip)
        ELSE GoOn(Append(s2, TruncDiv(b[1], a[1])), m, ip, <<>>)

\* Op::Div: `a / b` panics on a zero divisor and on i64::MIN / -1 in every build.
ExecDiv(s, m, ip) ==
    LET a == Pop(s)  s1 == Popped(s)
        b == Pop(s1) s2 == Popped(s1)
    IN  IF a = None THEN ReturnNone(s1, m, ip)
        ELSE IF b = None THEN ReturnNone(s2, m, ip)
        ELSE IF b[1] = Zero64
             THEN Abort("attempt to divide by zero", s2, m, ip)
        ELSE IF a[1] = I64Min /\ b[1] = I64(-1)
             THEN Abort("attempt to divide with overflow", s2, m, ip)
        ELSE GoOn(Append(s2, TruncDiv(a[1], b[1])), m, ip, <<>>)

\* Op::Lit.
ExecLit(x, s, m, ip) == GoOn(Append(s, x), m, ip, <<>>)

\* A Load that answers an address out of range with no value, as an empty pop
\* does, in place of the panic: what C4 tells from Op::Load.
ExecLoadReturnsNone(s, m, ip) ==
    LET a == Pop(s)  s1 == Popped(s)
    IN  IF a = None THEN ReturnNone(s1, m, ip)
        ELSE LET ptr == AsUsize(a[1])
             IN  IF ~ULt(ptr, Usize(Len(m)))
                 THEN ReturnNone(s1, m, ip)
                 ELSE GoOn(Append(s1, m[ToNat(ptr) + 1]), m, ip, <<>>)

\* Op::Load: memory[ptr] panics when ptr is not below the length.
ExecLoad(s, m, ip) ==
    LET a == Pop(s)  s1 == Popped(s)
    IN  IF a = None THEN ReturnNone(s1, m, ip)
        ELSE LET ptr == AsUsize(a[1])
             IN  IF ~ULt(ptr, Usize(Len(m)))
                 THEN Abort("index out of bounds", s1, m, ip)
                 ELSE GoOn(Append(s1, m[ToNat(ptr) + 1]), m, ip, <<>>)

\* A Store that appends at every address it accepts: what C3 tells from
\* Op::Store.
ExecStoreAlwaysPush(s, m, ip) ==
    LET p == Pop(s)  s1 == Popped(s)
        a == Pop(s1) s2 == Popped(s1)
    IN  IF p = None THEN ReturnNone(s1, m, ip)
        ELSE IF a = None THEN ReturnNone(s2, m, ip)
        ELSE LET ptr == AsUsize(p[1])
             IN  IF ~ULe(ptr, Usize(Len(m)))
                 THEN Abort("assertion failed: ptr <= self.memory.len()", s2, m, ip)
                 ELSE GoOn(s2, Append(m, a[1]), ip, <<>>)

\* Op::Store.
ExecStore(s, m, ip) ==
    LET p == Pop(s)  s1 == Popped(s)
        a == Pop(s1) s2 == Popped(s1)
    IN  IF p = None THEN ReturnNone(s1, m, ip)
        ELSE IF a = None THEN ReturnNone(s2, m, ip)
        ELSE LET ptr == AsUsize(p[1])
             IN  IF ~ULe(ptr, Usize(Len(m)))
                 THEN Abort("assertion failed: ptr <= self.memory.len()", s2, m, ip)
                 ELSE IF ULe(Usize(Len(m)), ptr)
                 THEN GoOn(s2, Append(m, a[1]), ip, <<>>)
                 ELSE GoOn(s2, [m EXCEPT ![ToNat(ptr) + 1] = a[1]], ip, <<>>)

\* Op::Jmp: jump_table[label] panics when label is not below the table's length.
ExecJmp(s, m, jt, ip) ==
    LET l == Pop(s)  s1 == Popped(s)
    IN  IF l = None THEN ReturnNone(s1, m, ip)
        ELSE LET label == AsUsize(l[1])
             IN  IF ~ULt(label, Usize(Len(jt)))
                 THEN Abort("index out of bounds", s1, m, ip)
                 ELSE GoOn(s1, m, jt[ToNat(label) + 1], <<>>)

\* Op::CJmp: the table is indexed only when the condition is not zero.
ExecCJmp(s, m, jt, ip) ==
    LET l == Pop(s)  s1 == Popped(s)
        a == Pop(s1) s2 == Popped(s1)
    IN  IF l = None THEN ReturnNone(s1, m, ip)
        ELSE IF a = None THEN ReturnNone(s2, m, ip)
        ELSE IF a[1] = Zero64 THEN GoOn(s2, m, ip, <<>>)
        ELSE LET label == AsUsize(l[1])
             IN  IF ~ULt(label, Usize(Len(jt)))
                 THEN Abort("index out of bounds", s2, m, ip)
                 ELSE GoOn(s2, m, jt[ToNat(label) + 1], <<>>)

\* A Put that prints the top cell and leaves it on the stack: what C7 tells
\* from Op::Put.
ExecPutPeek(s, m, ip) ==
    LET a == Pop(s)
    IN  IF a = None THEN ReturnNone(s, m, ip)
        ELSE GoOn(s, m, ip, <<DisplayI64(a[1])>>)

\* Op::Put: one line of output.
ExecPut(s, m, ip) ==
    LET a == Pop(s)  s1 == Popped(s)
    IN  IF a = None THEN ReturnNone(s1, m, ip)
        ELSE GoOn(s1, m, ip, <<DisplayI64(a[1])>>)

\* Op::Dup.
ExecDup(s, m, ip) ==
    LET a == Pop(s)  s1 == Popped(s)
    IN  IF a = None THEN ReturnNone(s1, m, ip)
        ELSE GoOn(Append(Append(s1, a[1]), a[1]), m, ip, <<>>)

\* A Swap that pushes its operands back as they were: what C12 tells from
\* Op::Swap.
ExecSwapBack(s, m, ip) ==
    LET a == Pop(s)  s1 == Popped(s)
        b == Pop(s1) s2 == Popped(s1)
    IN  IF a = None THEN ReturnNone(s1, m, ip)
        ELSE IF b = None THEN ReturnNone(s2, m, ip)
        ELSE GoOn(Append(Append(s2, b[1]), a[1]), m, ip, <<>>)

\* Op::Swap.
ExecSwap(s, m, ip) ==
    LET a == Pop(s)  s1 == Popped(s)
        b == Pop(s1) s2 == Popped(s1)
    IN  IF a = None THEN ReturnNone(s1, m, ip)
        ELSE IF b = None THEN ReturnNone(s2, m, ip)
        ELSE GoOn(Append(Append(s2, a[1]), b[1]), m, ip, <<>>)

\* An Eq whose pops are `?`-checked, as those of the arithmetic instructions
\* are: what C18 tells from Op::Eq.
ExecEqChecked(s, m, ip) ==
    LET a == Pop(s)  s1 == Popped(s)
        b == Pop(s1) s2 == Popped(s1)
    IN  IF a = None THEN ReturnNone(s1, m, ip)
        ELSE IF b = None THEN ReturnNone(s2, m, ip)
        ELSE GoOn(Append(s2, IF a = b THEN I64(1) ELSE I64(0)), m, ip, <<>>)

\* Op::Eq, Op::Lt, Op::Gt: the two pops are not `?`-checked, and the Options
\* themselves are compared.
ExecEq(s, m, ip) ==
    LET a == Pop(s)  s1 == Popped(s)
        b == Pop(s1) s2 == Popped(s1)
    IN  GoOn(Append(s2, IF a = b THEN I64(1) ELSE I64(0)), m, ip, <<>>)

\* An Lt that pushes the three-way ordering of its operands, -1, 0 or 1: what
\* C8 tells from Op::Lt.
ExecLtOrdering(s, m, ip) ==
    LET a == Pop(s)  s1 == Popped(s)
        b == Pop(s1) s2 == Popped(s1)
    IN  GoOn(Append(s2, IF OptionLt(a, b) THEN I64(-1)
                        ELSE IF a = b THEN I64(0) ELSE I64(1)), m, ip, <<>>)

ExecLt(s, m, ip) ==
    LET a == Pop(s)  s1 == Popped(s)
        b == Pop(s1) s2 == Popped(s1)
    IN  GoOn(Append(s2, IF OptionLt(a, b) THEN I64(1) ELSE I64(0)), m, ip, <<>>)

\* A Gt that inverts Lt, 1 when the second cell popped is below the first: what
\* C13 tells from Op::Gt.
ExecGtInverted(s, m, ip) ==
    LET a == Pop(s)  s1 == Popped(s)
        b == Pop(s1) s2 == Popped(s1)
    IN  GoOn(Append(s2, IF OptionLt(b, a) THEN I64(1) ELSE I64(0)), m, ip, <<>>)

ExecGt(s, m, ip) ==
    LET a == Pop(s)  s1 == Popped(s)
        b == Pop(s1) s2 == Popped(s1)
    IN  GoOn(Append(s2, IF OptionLt(a, b) THEN I64(1) ELSE I64(0)), m, ip, <<>>)

\* Op::Label(_) => ().
ExecLabel(s, m, ip) == GoOn(s, m, ip, <<>>)

\* A pre-pass without the assertion, where a label beyond the table is appended:
\* what C5 tells from the pre-pass of excecute.
PopulateLabelUnchecked(jt, label, ip) ==
    IF Len(jt) <= label THEN [ok |-> TRUE, jump_table |-> Append(jt, ip)]
    ELSE [ok |-> TRUE, jump_table |-> [jt EXCEPT ![label + 1] = ip]]

\* A pre-pass that keeps the first definition of a label: what C15 tells from
\* the pre-pass of excecute.
PopulateLabelKeepsFirst(jt, label, ip) ==
    IF ~(label <= Len(jt)) THEN [ok |-> FALSE, jump_table |-> jt]
    ELSE IF Len(jt) <= label THEN [ok |-> TRUE, jump_table |-> Append(jt, ip)]
    ELSE [ok |-> TRUE, jump_table |-> jt]

\* A pre-pass that appends an entry for every Label it meets: what C20 tells
\* from the pre-pass of excecute.
PopulateLabelAlwaysPush(jt, label, ip) ==
    IF ~(label <= Len(jt)) THEN [ok |-> FALSE, jump_table |-> jt]
    ELSE [ok |-> TRUE, jump_table |-> Append(jt, ip)]

\* One Label(label) at index ip of the pre-pass: the table after it, or the
\* failed assertion.
PopulateLabel(jt, label, ip) ==
    IF ~(label <= Len(jt)) THEN [ok |-> FALSE, jump_table |-> jt]
    ELSE IF Len(jt) <= label THEN [ok |-> TRUE, jump_table |-> Append(jt, ip)]
    ELSE [ok |-> TRUE, jump_table |-> [jt EXCEPT ![label + 1] = ip]]

(***************************************************************************)
(* Lexer::codegen: tokens, str::parse and the match on a token             *)
(***************************************************************************)

\* The characters split_whitespace splits at, those of Unicode's White_Space:
\* U+0009 to U+000D, U+0020, U+0085, U+00A0, U+1680, U+2000 to U+200A, U+2028,
\* U+2029, U+202F, U+205F and U+3000.  From U+2000 on a character is written
\* by its code point, as no string literal holds it.
WhiteSpace ==
    { "\t", "\n", "", "\f", "\r", " ", "", " ", " ",
      "U+2000", "U+2001", "U+2002", "U+2003", "U+2004", "U+2005",
      "U+2006", "U+2007", "U+2008", "U+2009", "U+200A", "U+2028",
      "U+2029", "U+202F", "U+205F", "U+3000" }

IsDigit(c) == \E d \in 1..10 : DigitChars[d] = c
DigitValue(c) == (CHOOSE d \in 1..10 : DigitChars[d] = c) - 1

\* 10 * m + carry on the bytes of an unsigned word, from byte k up:
\* <<the bytes k.., the carry out of the top byte>>.
RECURSIVE MulAdd10From(_, _, _)
MulAdd10From(m, k, carry) ==
    IF k > Len(m) THEN << <<>>, carry >>
    ELSE CHOOSE r \in { << <<(10 * m[k] + carry) % 256>> \o above[1], above[2] >> :
                        above \in {MulAdd10From(m, k + 1, (10 * m[k] + carry) \div 256)} } :
             TRUE

\* The unsigned 64-bit value of the first n characters of ds read as decimal
\* digits: None for a character that is no ASCII digit and for a value that
\* overflows 64 bits.
RECURSIVE ParseDigits(_, _)
ParseDigits(ds, n) ==
    IF n = 0 THEN Some(Zero64)
    ELSE IF ~IsDigit(ds[n]) THEN None
    ELSE CHOOSE r \in { IF prev = None THEN None
                        ELSE LET ma == MulAdd10From(prev[1], 1, DigitValue(ds[n]))
                             IN  IF ma[2] # 0 THEN None ELSE Some(ma[1]) :
                        prev \in {ParseDigits(ds, n - 1)} } : TRUE

\* str::parse::<i64>: an optional sign, then one digit at least, in range.
\* None stands for the Err.
ParseI64(x) ==
    IF x = <<>> \/ x = <<"+">> \/ x = <<"-">> THEN None
    ELSE LET signed == x[1] \in {"+", "-"}
             digits == IF signed THEN Tail(x) ELSE x
             mag == ParseDigits(digits, Len(digits))
         IN  IF mag = None THEN None
             ELSE IF x[1] = "-"
                  THEN (IF ULe(mag[1], I64Min) THEN Some(WrappingNeg(mag[1])) ELSE None)
                  ELSE (IF ULe(mag[1], I64Max) THEN Some(mag[1]) ELSE None)

\* A parse of a label id as a signed integer that is not negative, so that
\* `-0` is an id: what C11 tells from str::parse::<usize>.
ParseUsizeSigned(x) ==
    LET r == ParseI64(x)
    IN  IF r = None \/ IsNeg(r[1]) THEN None ELSE r

\* str::parse::<usize>: an optional `+`, then one digit at least, in range; a
\* `-` is no digit.  None stands for the Err.
ParseUsize(x) ==
    IF x = <<>> \/ x = <<"+">> \/ x = <<"-">> THEN None
    ELSE LET digits == IF x[1] = "+" THEN Tail(x) ELSE x
         IN  ParseDigits(digits, Len(digits))

\* The opcode tokens of the match, and what each one is.
OpcodeTokens ==
    << <<"+">>, <<"-">>, <<"*">>, <<"/">>, <<"l", "o", "a", "d">>,
       <<"s", "t", "o", "r", "e">>, <<"j", "m", "p">>, <<"c", "j", "m", "p">>, <<".">>,
       <<"d", "u", "p">>, <<"s", "w", "a", "p">>, <<"=">>, <<"<">>, <<">">> >>
OpcodeNames ==
    <<"Add", "Sub", "Mul", "Div", "Load", "Store", "Jmp", "CJmp", "Put", "Dup", "Swap",
      "Eq", "Lt", "Gt">>

Pushed(op) == [ok |-> TRUE, op |-> op, out |-> <<>>, panic |-> ""]
Failed(out, why) == [ok |-> FALSE, op |-> Plain("Add"), out |-> out, panic |-> why]

\* The arm `lit => ...` of the match: a literal, a label, or a panic (after the
\* token is printed, when it does not end in a colon).  A label id of 2^31 or
\* more, which no index of the model reaches, stays as its bytes.
TranslateLit(lit) ==
    LET parse_res == ParseI64(lit)
    IN  IF parse_res # None THEN Pushed(Lit(parse_res[1]))
        ELSE IF lit[Len(lit)] # ":" THEN Failed(<<lit>>, "assertion failed: false")
        ELSE LET label == ParseUsize(SubSeq(lit, 1, Len(lit) - 1))
             IN  IF label = None
                 THEN Failed(<<>>, "called Result::unwrap() on an Err value")
                 ELSE Pushed(Label(IF IsSmall(label[1]) THEN ToNat(label[1]) ELSE label[1]))

\* `match x { ... }` of codegen on one token x (never empty).
Translate(x) ==
    IF \E k \in 1..Len(OpcodeTokens) : OpcodeTokens[k] = x
    THEN Pushed(Plain(OpcodeNames[CHOOSE k \in 1..Len(OpcodeTokens) : OpcodeTokens[k] = x]))
    ELSE TranslateLit(x)

\* split_whitespace: s without its leading white space, and the length of the
\* token a text without leading white space starts with.
RECURSIVE SkipWhiteSpace(_)
SkipWhiteSpace(s) ==
    IF s # <<>> /\ s[1] \in WhiteSpace THEN SkipWhiteSpace(Tail(s)) ELSE s

RECURSIVE TokenLen(_)
TokenLen(s) ==
    IF s = <<>> \/ s[1] \in WhiteSpace THEN 0 ELSE 1 + TokenLen(Tail(s))

(***************************************************************************)
(* Bounds and inputs                                                       *)
(***************************************************************************)

\* The most instructions one call dispatches in the model (a program may loop).
MaxSteps == 140
\* The most calls of excecute on one engine.
MaxRuns == 2
\* The most memory cells a program's set-up prefix stores.
MaxMemSetup == 2
\* The most cells a program's set-up prefix leaves on the stack, below the operands.
MaxBelow == 1
\* The longest program of labels and jumps.
MaxJumpProg == 4

\* The literals of the programs: the small values and both ends of i64.
Lits == {I64(-1), I64(0), I64(1), I64(2), I64Max, I64Min}

\* Every sequence over S of length at most n.
RECURSIVE SeqsUpTo(_, _)
SeqsUpTo(S, n) ==
    IF n = 0 THEN {<<>>}
    ELSE LET shorter == SeqsUpTo(S, n - 1)
         IN  shorter \cup {Append(q, x) : q \in {r \in shorter : Len(r) = n - 1}, x \in S}

\* A prefix that stores n cells, 5, 6, ... at addresses 0, 1, ...
RECURSIVE MemSetup(_)
MemSetup(n) ==
    IF n = 0 THEN <<>>
    ELSE MemSetup(n - 1) \o <<Lit(I64(4 + n)), Lit(I64(n - 1)), Plain("Store")>>

\* A prefix that pushes n cells, 11, 12, ...
BelowSetup(n) == [k \in 1..n |-> Lit(I64(10 + k))]

\* No operand, one or two: no instruction pops more than two.
Operands == SeqsUpTo({Lit(x) : x \in Lits}, 2)

\* What may follow the instruction under test: nothing, or one more instruction.
Tails == {<<>>, <<Lit(I64(3))>>}

\* One instruction on every stack of up to two operands over MaxBelow further cells.
StackPrograms ==
    { BelowSetup(k) \o ops \o <<Plain(name)>> \o t :
        k \in 0..MaxBelow, ops \in Operands, name \in PlainOps, t \in Tails }

\* A Load or a Store on a memory of 1..MaxMemSetup cells.
MemoryPrograms ==
    { MemSetup(n) \o BelowSetup(k) \o ops \o <<Plain(name)>> \o t :
        n \in 1..MaxMemSetup, k \in 0..MaxBelow, ops \in Operands,
        name \in {"Load", "Store"}, t \in Tails }

\* Labels, jump targets and jumps in every order.
JumpAlphabet ==
    {Label(0), Label(1), Label(2), Lit(I64(0)), Lit(I64(1)), Lit(I64(-1)),
     Plain("Jmp"), Plain("CJmp")}
JumpPrograms == SeqsUpTo(JumpAlphabet, MaxJumpProg)

\* The programs run on a fresh engine.
Programs == StackPrograms \cup MemoryPrograms \cup JumpPrograms

\* The programs run one after another on one engine: short ones, whose operands,
\* memory and labels are what earlier calls left.
ReusePrograms ==
    {<<>>, <<Lit(I64(1))>>, <<Lit(I64(1)), Lit(I64(2)), Lit(I64(3))>>}
    \cup {<<Plain(name)>> : name \in PlainOps}
    \cup {<<Lit(I64(1)), Plain("Add")>>}
    \cup {<<Lit(I64(4 + a)), Lit(I64(a)), Plain("Store")>> : a \in 0..1}
    \cup {<<Lit(I64(9)), Lit(I64(0)), Plain("Store")>>}
    \cup {<<Lit(I64(a)), Plain("Load")>> : a \in 0..1}
    \cup {<<Label(0)>>, <<Lit(I64(3)), Label(0)>>, <<Label(0), Label(1)>>}
    \cup {<<Lit(I64(0)), Plain("Jmp"), Lit(I64(8))>>,
          <<Lit(I64(1)), Plain("Jmp"), Lit(I64(8))>>,
          <<Lit(I64(1)), Lit(I64(0)), Plain("CJmp"), Lit(I64(8))>>}

\* The countdown from 10: `10 0 store 0: 0 load . 1 0 load - 0 store 0 load 0 cjmp`.
Countdown ==
    << Lit(I64(10)), Lit(I64(0)), Plain("Store"),
       Label(0),
       Lit(I64(0)), Plain("Load"), Plain("Put"),
       Lit(I64(1)), Lit(I64(0)), Plain("Load"), Plain("Sub"),
       Lit(I64(0)), Plain("Store"),
       Lit(I64(0)), Plain("Load"), Lit(I64(0)), Plain("CJmp") >>

\* The most tokens of a source text.
MaxTokens == 2

\* Tokens that are no opcode: literals with and without a sign, at and beyond
\* the ends of i64; labels, with a sign, without an id, beyond usize; and
\* tokens of neither shape.
OtherWords ==
    { <<"0">>,
      <<"1">>,
      <<"-", "1">>,
      <<"+", "5">>,
      <<"1", "2">>,
      <<"-", "0">>,
      <<"9", "2", "2", "3", "3", "7", "2", "0", "3", "6", "8", "5", "4", "7", "7", "5", "8", "0", "7">>,
      <<"9", "2", "2", "3", "3", "7", "2", "0", "3", "6", "8", "5", "4", "7", "7", "5", "8", "0", "8">>,
      <<"-", "9", "2", "2", "3", "3", "7", "2", "0", "3", "6", "8", "5", "4", "7", "7", "5", "8", "0", "8">>,
      <<"-", "9", "2", "2", "3", "3", "7", "2", "0", "3", "6", "8", "5", "4", "7", "7", "5", "8", "0", "9">>,
      <<"0", ":">>,
      <<"1", ":">>,
      <<"+", "2", ":">>,
      <<"-", "0", ":">>,
      <<":">>,
      <<"x">>,
      <<"1", ":", "2">>,
      <<"l", "o", "a", "d", ":">>,
      <<"-", "-", "1">>,
      <<"1", "8", "4", "4", "6", "7", "4", "4", "0", "7", "3", "7", "0", "9", "5", "5", "1", "6", "1", "6", ":">> }

Words == {OpcodeTokens[k] : k \in 1..Len(OpcodeTokens)} \cup OtherWords

RECURSIVE Join(_, _)
Join(ws, sep) ==
    IF ws = <<>> THEN <<>>
    ELSE IF Len(ws) = 1 THEN ws[1]
    ELSE ws[1] \o sep \o Join(Tail(ws), sep)

\* Words of every kind, for the texts of several tokens: two opcodes, two
\* literals, two labels (the second one refused), and a word of no shape.
FewWords ==
    { <<"+">>, <<"l", "o", "a", "d">>, <<"+", "5">>, <<"1", "2">>, <<"+", "2", ":">>,
      <<"-", "0", ":">>, <<"x">> }

\* The source texts.  Every word alone, bare and between white space; every word
\* after one of the few; and up to MaxTokens of the few words: a blank between
\* them, or a tab and a blank between them with a newline before and a blank
\* after, or the lines of a CRLF file, each word on its own.
Sources ==
    Words
    \cup {<<" ">> \o w \o <<"\n">> : w \in Words}
    \cup {<<"\f">> \o w \o <<"\r", "\n">> : w \in Words}
    \cup {a \o <<" ">> \o w : a \in FewWords, w \in Words}
    \cup {Join(ws, <<" ">>) : ws \in SeqsUpTo(FewWords, MaxTokens)}
    \cup {<<"\n">> \o Join(ws, <<"\t", " ">>) \o <<" ">> : ws \in SeqsUpTo(FewWords, MaxTokens)}
    \cup {Join(ws, <<"\r", "\n">>) \o <<"\r", "\n">> : ws \in SeqsUpTo(FewWords, MaxTokens)}

(***************************************************************************)
(* The engine (struct VM) and one call of excecute                         *)
(***************************************************************************)

VARIABLES
    stack,            \* VM.stack
    memory,           \* VM.memory
    jump_table,       \* VM.jump_table: instruction indices, from 0
    program,          \* the program of the current (or last) call
    i,                \* the pre-pass's index, then the instruction pointer, from 0
    pc,               \* "new", "populate", "dispatch", "returned", "panicked"
    result,           \* what the last call returned
    output,           \* the lines the current (or last) call printed
    panic,            \* the panic message, once panicked
    steps,            \* instructions the current call has dispatched
    runs,             \* calls of excecute so far
    overflow_checks,  \* whether the build panics on arithmetic overflow
    source,           \* codegen's `program: &str`, one string per character
    rest,             \* what split_whitespace has not yet yielded of it
    tokens            \* codegen's `tokens`, then what it returned

vars == <<stack, memory, jump_table, program, i, pc, result, output, panic, steps,
          runs, overflow_checks, source, rest, tokens>>

\* VM::new(), in a debug or a release build.
Init ==
    /\ stack = <<>>
    /\ memory = <<>>
    /\ jump_table = <<>>
    /\ program = <<>>
    /\ i = 0
    /\ pc = "new"
    /\ result = None
    /\ output = <<>>
    /\ panic = ""
    /\ steps = 0
    /\ runs = 0
    /\ overflow_checks \in BOOLEAN
    /\ source = <<>>
    /\ rest = <<>>
    /\ tokens = <<>>

\* An entry of excecute that clears the engine first: what C9 tells from
\* excecute.
CallFresh(P) ==
    /\ pc \in {"new", "returned"}
    /\ program' = P
    /\ i' = 0
    /\ pc' = "populate"
    /\ result' = None
    /\ output' = <<>>
    /\ steps' = 0
    /\ runs' = runs + 1
    /\ stack' = <<>>
    /\ memory' = <<>>
    /\ jump_table' = <<>>
    /\ UNCHANGED <<source, rest, tokens, panic, overflow_checks>>

\* excecute(&program) is entered: nothing of the engine is reset.
Call(P) ==
    /\ pc \in {"new", "returned"}
    /\ program' = P
    /\ i' = 0
    /\ pc' = "populate"
    /\ result' = None
    /\ output' = <<>>
    /\ steps' = 0
    /\ runs' = runs + 1
    /\ UNCHANGED <<source, rest, tokens, stack, memory, jump_table, panic, overflow_checks>>

\* A program is run on a fresh engine, as main does.
Excecute ==
    /\ pc = "new"
    /\ \E P \in Programs : Call(P)

\* The pre-pass meets a Label.
PopulateJumpTable ==
    /\ pc = "populate"
    /\ i < Len(program)
    /\ program[i + 1].op = "Label"
    /\ LET r == PopulateLabel(jump_table, program[i + 1].label, i)
       IN  /\ jump_table' = r.jump_table
           /\ IF r.ok
              THEN /\ pc' = "populate"
                   /\ i' = i + 1
                   /\ panic' = panic
              ELSE /\ pc' = "panicked"
                   /\ i' = i
                   /\ panic' = "assertion failed: *label <= self.jump_table.len()"
    /\ UNCHANGED <<source, rest, tokens, stack, memory, program, result, output, steps, runs, overflow_checks>>

\* The pre-pass meets any other instruction.
PopulateSkip ==
    /\ pc = "populate"
    /\ i < Len(program)
    /\ program[i + 1].op # "Label"
    /\ i' = i + 1
    /\ UNCHANGED <<source, rest, tokens, stack, memory, jump_table, program, pc, result, output, panic,
                   steps, runs, overflow_checks>>

\* The pre-pass is over: `let mut i = 0`.
StartDispatch ==
    /\ pc = "populate"
    /\ i = Len(program)
    /\ pc' = "dispatch"
    /\ i' = 0
    /\ UNCHANGED <<source, rest, tokens, stack, memory, jump_table, program, result, output, panic,
                   steps, runs, overflow_checks>>

\* The head of the dispatch loop: the pointer is inside the program.
Fetch ==
    /\ pc = "dispatch"
    /\ i < Len(program)
    /\ steps < MaxSteps

\* The engine after an instruction with effect e: `i += 1`, the early return of
\* a `?`, or the panic.
Step(e) ==
    \E r \in {e} :
        /\ stack' = r.stack
        /\ memory' = r.memory
        /\ output' = output \o r.out
        /\ panic' = r.panic
        /\ i' = IF r.flow = "next" THEN r.i + 1 ELSE i
        /\ pc' = CASE r.flow = "next" -> "dispatch"
                   [] r.flow = "none" -> "returned"
                   [] r.flow = "panic" -> "panicked"
        /\ result' = None
        /\ steps' = steps + 1
        /\ UNCHANGED <<source, rest, tokens, jump_table, program, runs, overflow_checks>>

OpAdd ==
    /\ Fetch
    /\ program[i + 1].op = "Add"
    /\ Step(ExecAdd(stack, memory, i, overflow_checks))

OpSub ==
    /\ Fetch
    /\ program[i + 1].op = "Sub"
    /\ Step(ExecSub(stack, memory, i, overflow_checks))

OpMul ==
    /\ Fetch
    /\ program[i + 1].op = "Mul"
    /\ Step(ExecMul(stack, memory, i, overflow_checks))

OpDiv ==
    /\ Fetch
    /\ program[i + 1].op = "Div"
    /\ Step(ExecDiv(stack, memory, i))

OpLit ==
    /\ Fetch
    /\ program[i + 1].op = "Lit"
    /\ Step(ExecLit(program[i + 1].x, stack, memory, i))

OpLoad ==
    /\ Fetch
    /\ program[i + 1].op = "Load"
    /\ Step(ExecLoad(stack, memory, i))

OpStore ==
    /\ Fetch
    /\ program[i + 1].op = "Store"
    /\ Step(ExecStore(stack, memory, i))

OpLabel ==
    /\ Fetch
    /\ program[i + 1].op = "Label"
    /\ Step(ExecLabel(stack, memory, i))

OpJmp ==
    /\ Fetch
    /\ program[i + 1].op = "Jmp"
    /\ Step(ExecJmp(stack, memory, jump_table, i))

OpCJmp ==
    /\ Fetch
    /\ program[i + 1].op = "CJmp"
    /\ Step(ExecCJmp(stack, memory, jump_table, i))

OpPut ==
    /\ Fetch
    /\ program[i + 1].op = "Put"
    /\ Step(ExecPut(stack, memory, i))

OpDup ==
    /\ Fetch
    /\ program[i + 1].op = "Dup"
    /\ Step(ExecDup(stack, memory, i))

OpSwap ==
    /\ Fetch
    /\ program[i + 1].op = "Swap"
    /\ Step(ExecSwap(stack, memory, i))

OpEq ==
    /\ Fetch
    /\ program[i + 1].op = "Eq"
    /\ Step(ExecEq(stack, memory, i))

OpLt ==
    /\ Fetch
    /\ program[i + 1].op = "Lt"
    /\ Step(ExecLt(stack, memory, i))

OpGt ==
    /\ Fetch
    /\ program[i + 1].op = "Gt"
    /\ Step(ExecGt(stack, memory, i))

\* An exit that returns the cell at the bottom of the stack, the first one pushed:
\* what C10 tells from the return of excecute.
ReturnBottom ==
    /\ pc = "dispatch"
    /\ i >= Len(program)
    /\ result' = IF stack = <<>> THEN None ELSE Some(stack[1])
    /\ stack' = IF stack = <<>> THEN stack ELSE SubSeq(stack, 2, Len(stack))
    /\ pc' = "returned"
    /\ UNCHANGED <<source, rest, tokens, memory, jump_table, program, i, output, panic, steps, runs,
                   overflow_checks>>

\* An exit that returns the top cell and leaves it on the stack: what C19 tells
\* from the return of excecute.
ReturnPeek ==
    /\ pc = "dispatch"
    /\ i >= Len(program)
    /\ result' = Pop(stack)
    /\ pc' = "returned"
    /\ UNCHANGED <<source, rest, tokens, stack, memory, jump_table, program, i, output,
                   panic, steps, runs, overflow_checks>>

\* The loop's exit and the final `self.stack.pop()`.
Return ==
    /\ pc = "dispatch"
    /\ i >= Len(program)
    /\ result' = Pop(stack)
    /\ stack' = Popped(stack)
    /\ pc' = "returned"
    /\ UNCHANGED <<source, rest, tokens, memory, jump_table, program, i, output, panic, steps, runs,
                   overflow_checks>>

\* The steps of one call.
Run ==
    \/ PopulateJumpTable
    \/ PopulateSkip
    \/ StartDispatch
    \/ OpAdd
    \/ OpSub
    \/ OpMul
    \/ OpDiv
    \/ OpLit
    \/ OpLoad
    \/ OpStore
    \/ OpLabel
    \/ OpJmp
    \/ OpCJmp
    \/ OpPut
    \/ OpDup
    \/ OpSwap
    \/ OpEq
    \/ OpLt
    \/ OpGt
    \/ Return

Next == Excecute \/ Run

Spec == Init /\ [][Next]_vars

\* One engine is called again and again.
ExcecuteReuse ==
    /\ runs < MaxRuns
    /\ \E P \in ReusePrograms : Call(P)

NextReuse == ExcecuteReuse \/ Run

SpecReuse == Init /\ [][NextReuse]_vars

\* The countdown is run on a fresh engine.  excecute runs on the caller's thread
\* without suspending, so a call that can take a step takes it.
ExcecuteCountdown ==
    /\ pc = "new"
    /\ Call(Countdown)

NextCountdown ==
    \/ ExcecuteCountdown
    \/ PopulateJumpTable
    \/ PopulateSkip
    \/ StartDispatch
    \/ OpLit
    \/ OpStore
    \/ OpLabel
    \/ OpLoad
    \/ OpPut
    \/ OpSub
    \/ OpCJmp
    \/ Return

SpecCountdown == Init /\ [][NextCountdown]_vars /\ WF_vars(NextCountdown)
(***************************************************************************)
(* Lexer::codegen, one token of the source at a time                        *)
(***************************************************************************)

\* codegen(&input) is entered, before main constructs the VM.
InitLexer ==
    /\ stack = <<>>
    /\ memory = <<>>
    /\ jump_table = <<>>
    /\ program = <<>>
    /\ i = 0
    /\ pc = "codegen"
    /\ result = None
    /\ output = <<>>
    /\ panic = ""
    /\ steps = 0
    /\ runs = 0
    /\ overflow_checks \in BOOLEAN
    /\ source \in Sources
    /\ rest = source
    /\ tokens = <<>>

\* One turn of `for x in program.split_whitespace()`: the token is matched and
\* its instruction pushed, or codegen panics and its `tokens` is dropped.
CodegenToken ==
    /\ pc = "codegen"
    /\ SkipWhiteSpace(rest) # <<>>
    /\ \E r \in {SkipWhiteSpace(rest)} :
       \E t \in {Translate(SubSeq(r, 1, TokenLen(r)))} :
           IF t.ok
           THEN /\ tokens' = Append(tokens, t.op)
                /\ rest' = SubSeq(r, TokenLen(r) + 1, Len(r))
                /\ UNCHANGED <<pc, output, panic>>
           ELSE /\ tokens' = <<>>
                /\ rest' = rest
                /\ pc' = "panicked"
                /\ output' = output \o t.out
                /\ panic' = t.panic
    /\ UNCHANGED <<stack, memory, jump_table, program, i, result, steps, runs,
                   overflow_checks, source>>

\* No token is left: codegen returns `tokens`.
CodegenReturn ==
    /\ pc = "codegen"
    /\ SkipWhiteSpace(rest) = <<>>
    /\ pc' = "compiled"
    /\ rest' = <<>>
    /\ UNCHANGED <<stack, memory, jump_table, program, i, result, output, panic, steps,
                   runs, overflow_checks, source, tokens>>

NextLexer == CodegenToken \/ CodegenReturn

SpecLexer == InitLexer /\ [][NextLexer]_vars

(***************************************************************************)
(* What the properties below are stated with                               *)
(***************************************************************************)

\* The dispatch loop is about to execute an instruction named name.
AtOp(name) == Fetch /\ program[i + 1].op = name

\* The call is over: it returned or it panicked.
Finished == pc \in {"returned", "panicked"}

\* An i64 as three limbs of 24, 24 and 16 bits, the top one signed: its value is
\* l[1] + 2^24 * l[2] + 2^48 * l[3].
Limbs(x) ==
    << x[1] + 256 * x[2] + 65536 * x[3],
       x[4] + 256 * x[5] + 65536 * x[6],
       x[7] + 256 * (IF x[8] >= 128 THEN x[8] - 256 ELSE x[8]) >>

\* r is the integer a + b: the limbs of r are the limb-wise sum with its carries.
\* No i64 is the sum when the top limb of the sum leaves -2^15 .. 2^15 - 1.
IsSum(r, a, b) ==
    LET s1 == Limbs(a)[1] + Limbs(b)[1]
        s2 == Limbs(a)[2] + Limbs(b)[2] + (s1 \div 16777216)
        s3 == Limbs(a)[3] + Limbs(b)[3] + (s2 \div 16777216)
    IN  Limbs(r) = <<s1 % 16777216, s2 % 16777216, s3>>

\* The number of cells each instruction pops.
Pops(name) == IF name \in {"Load", "Jmp", "Put", "Dup"} THEN 1 ELSE 2

\* The address k < n that the cell addr denotes, as a set: empty when addr is
\* negative or at least n.
AddressBelow(addr, n) == {k \in 0..(n - 1) : addr = I64(k)}

(***************************************************************************)
(* C1                                                                      *)
(***************************************************************************)

\* C1, as claimed: for all i64 a and b, Lit(a), Lit(b), Add on a fresh engine
\* returns a + b.  It fails where a + b is not an i64: the call panics in a build
\* with overflow checks and returns the wrapped sum in one without.
C1_AddReturnsSum ==
    \A a \in Lits, b \in Lits :
        (program = <<Lit(a), Lit(b), Plain("Add")>> /\ Finished)
            => /\ pc = "returned"
               /\ result # None
               /\ IsSum(result[1], a, b)

\* C1, where the sum is an i64: the call returns it, in either build.
C1_AddReturnsSumInRange ==
    \A a \in Lits, b \in Lits :
        (program = <<Lit(a), Lit(b), Plain("Add")>> /\ Finished
            /\ \E r \in Lits \cup {WrappingAdd(a, b)} : IsSum(r, a, b))
            => /\ pc = "returned"
               /\ result # None
               /\ IsSum(result[1], a, b)

(***************************************************************************)
(* C2                                                                      *)
(***************************************************************************)

\* C2, as claimed: every instruction that pops ends the call with no value, and
\* without a panic, when the stack holds fewer cells than it pops.  It fails for
\* Eq, Lt and Gt, whose pops are not `?`-checked.
C2_EmptyPopEndsExecution ==
    [][ (Fetch /\ program[i + 1].op \in PlainOps
               /\ Len(stack) < Pops(program[i + 1].op))
            => (pc' = "returned" /\ result' = None) ]_vars

\* C2 for the eleven instructions whose pops are `?`-checked.
C2_CheckedPopEndsExecution ==
    [][ (Fetch /\ program[i + 1].op \in PlainOps \ {"Eq", "Lt", "Gt"}
               /\ Len(stack) < Pops(program[i + 1].op))
            => (pc' = "returned" /\ result' = None) ]_vars

(***************************************************************************)
(* C3                                                                      *)
(***************************************************************************)

\* C3: a Store that pops the address addr and the value v, on a memory of n
\* cells, appends v when addr = n, overwrites cell addr alone when 0 <= addr < n,
\* and otherwise (addr > n, or negative) panics and leaves the memory as it was.
C3_Store ==
    [][ (AtOp("Store") /\ Len(stack) >= 2)
            => LET addr == stack[Len(stack)]
                   v == stack[Len(stack) - 1]
                   n == Len(memory)
               IN  IF addr = I64(n)
                   THEN pc' = "dispatch" /\ memory' = Append(memory, v)
                   ELSE IF AddressBelow(addr, n) # {}
                   THEN /\ pc' = "dispatch"
                        /\ Len(memory') = n
                        /\ \A k \in 0..(n - 1) :
                               memory'[k + 1] = IF addr = I64(k) THEN v
                                                ELSE memory[k + 1]
                   ELSE pc' = "panicked" /\ memory' = memory ]_vars

\* Two cells were appended and cell 0 was then overwritten in place.
C3_Witness ==
    /\ pc = "returned"
    /\ program = MemSetup(2) \o <<Lit(I64Min), Lit(I64(0)), Plain("Store")>>
    /\ memory = <<I64Min, I64(6)>>

\* A Store one past the end of a memory of one cell panicked.
C3_WitnessAbort ==
    /\ pc = "panicked"
    /\ program = MemSetup(1) \o <<Lit(I64(1)), Lit(I64(2)), Plain("Store")>>
    /\ memory = <<I64(5)>>

(***************************************************************************)
(* C4                                                                      *)
(***************************************************************************)

\* C4: a Load that pops the address addr, on a memory of n cells, pushes
\* memory[addr] and leaves the memory alone when 0 <= addr < n, and otherwise
\* panics: it neither goes on nor returns.
C4_Load ==
    [][ (AtOp("Load") /\ Len(stack) >= 1)
            => LET addr == stack[Len(stack)]
                   n == Len(memory)
               IN  IF AddressBelow(addr, n) # {}
                   THEN /\ pc' = "dispatch"
                        /\ memory' = memory
                        /\ \E k \in AddressBelow(addr, n) :
                               stack' = Append(Popped(stack), memory[k + 1])
                   ELSE pc' = "panicked" ]_vars

\* A Load at the length of a memory of two cells panicked.
C4_Witness ==
    /\ pc = "panicked"
    /\ program = MemSetup(2) \o <<Lit(I64(2)), Plain("Load")>>
    /\ Len(memory) = 2

(***************************************************************************)
(* C5                                                                      *)
(***************************************************************************)

\* C5: in the pre-pass, a Label(id) with id above the table's size panics, and
\* no instruction has been dispatched: the stack, the memory and the output are
\* as the call found them.
C5_LabelOutOfOrder ==
    [][ (pc = "populate" /\ i < Len(program) /\ program[i + 1].op = "Label"
            /\ program[i + 1].label > Len(jump_table))
            => /\ pc' = "panicked"
               /\ steps' = 0
               /\ stack' = stack /\ stack = <<>>
               /\ memory' = memory /\ memory = <<>>
               /\ output' = output /\ output = <<>> ]_vars

\* Label(2) as the first label of a fresh engine panicked in the pre-pass.
C5_Witness ==
    /\ pc = "panicked"
    /\ program[1] = Label(2)
    /\ i = 0
    /\ steps = 0
    /\ jump_table = <<>>

(***************************************************************************)
(* C6                                                                      *)
(***************************************************************************)

\* The lines 10, 9, ..., 1.
CountdownLines ==
    << <<"1", "0">>, <<"9">>, <<"8">>, <<"7">>, <<"6">>, <<"5">>, <<"4">>, <<"3">>,
       <<"2">>, <<"1">> >>

IsPrefix(p, q) == Len(p) <= Len(q) /\ SubSeq(q, 1, Len(p)) = p

\* C6: the countdown prints 10, 9, ..., 1 in that order, one line per Put, and
\* then ends: the pointer reaches the end of the program and the call returns.
C6_Countdown ==
    /\ [](IsPrefix(output, CountdownLines))
    /\ [][AtOp("Put") => Len(output') = Len(output) + 1]_vars
    /\ <>[](pc = "returned" /\ i = Len(Countdown) /\ output = CountdownLines)

\* The countdown has returned with its ten lines printed.
C6_Witness ==
    /\ pc = "returned"
    /\ program = Countdown
    /\ output = CountdownLines
    /\ memory = <<I64(0)>>

(***************************************************************************)
(* C7                                                                      *)
(***************************************************************************)

\* The decimal form of each literal of the programs.
DecimalText(v) ==
    CASE v = I64(-1) -> <<"-", "1">>
      [] v = I64(0) -> <<"0">>
      [] v = I64(1) -> <<"1">>
      [] v = I64(2) -> <<"2">>
      [] v = I64Max -> <<"9", "2", "2", "3", "3", "7", "2", "0", "3", "6", "8", "5",
                         "4", "7", "7", "5", "8", "0", "7">>
      [] v = I64Min -> <<"-", "9", "2", "2", "3", "3", "7", "2", "0", "3", "6", "8",
                         "5", "4", "7", "7", "5", "8", "0", "8">>

\* C7: Lit(v), Put on a fresh engine prints exactly one line, the decimal form of
\* v, leaves the stack empty and returns no value.
C7_LitPut ==
    \A v \in Lits :
        (program = <<Lit(v), Plain("Put")>> /\ Finished)
            => /\ pc = "returned"
               /\ output = <<DecimalText(v)>>
               /\ stack = <<>>
               /\ result = None

\* Lit(i64::MIN), Put has returned.
C7_Witness ==
    /\ pc = "returned"
    /\ program = <<Lit(I64Min), Plain("Put")>>
    /\ Len(output) = 1
    /\ Len(output[1]) = 20

(***************************************************************************)
(* C8                                                                      *)
(***************************************************************************)

\* C8: Eq, Lt and Gt on a stack of two cells or more remove the top two cells and
\* push one cell, 0 or 1: the stack is one shorter and the cells below the two
\* operands are as before.
C8_Comparisons ==
    [][ (Fetch /\ program[i + 1].op \in {"Eq", "Lt", "Gt"} /\ Len(stack) >= 2)
            => /\ pc' = "dispatch"
               /\ Len(stack') = Len(stack) - 1
               /\ SubSeq(stack', 1, Len(stack) - 2) = SubSeq(stack, 1, Len(stack) - 2)
               /\ stack'[Len(stack')] \in {I64(0), I64(1)} ]_vars

\* Lt has compared i64::MIN (popped first) with i64::MAX, over one further cell.
C8_Witness ==
    /\ pc = "dispatch"
    /\ program = BelowSetup(1) \o <<Lit(I64Max), Lit(I64Min), Plain("Lt")>>
    /\ i = 4
    /\ stack = <<I64(11), I64(1)>>

(***************************************************************************)
(* C9                                                                      *)
(***************************************************************************)

\* C9: a call of excecute resets nothing: the program starts on the stack, the
\* memory and the jump table the call before left, and its pre-pass changes no
\* entry of the table but those of the labels it meets.  Only an engine that
\* was never called is sure to hold none.
C9_NoReset ==
    /\ [][ (pc # "populate" /\ pc' = "populate")
               => (memory' = memory /\ jump_table' = jump_table /\ stack' = stack) ]_vars
    /\ [][ pc = "populate"
               => /\ memory' = memory
                  /\ stack' = stack
                  /\ Len(jump_table') >= Len(jump_table)
                  /\ \A k \in 1..Len(jump_table) :
                         \/ jump_table'[k] = jump_table[k]
                         \/ /\ i < Len(program)
                            /\ program[i + 1] = Label(k - 1) ]_vars
    /\ [](runs = 0 => (stack = <<>> /\ memory = <<>> /\ jump_table = <<>>))

\* A second program has loaded the cell that the first one stored.
C9_Witness ==
    /\ runs = 2
    /\ pc = "returned"
    /\ program = <<Lit(I64(0)), Plain("Load")>>
    /\ result = Some(I64(4))

\* A second program has jumped to a label that only the first one defined:
\* the jump skipped to the last instruction.
C9_WitnessLabel ==
    /\ runs = 2
    /\ pc = "returned"
    /\ program = <<Lit(I64(0)), Plain("Jmp"), Lit(I64(8))>>
    /\ jump_table = <<1>>
    /\ steps = 3
    /\ result = Some(I64(8))

(***************************************************************************)
(* C10                                                                     *)
(***************************************************************************)

\* C10: with the pointer at the end of the program the call returns, and what it
\* returns is the cell on top of the stack then, or no value from an empty stack.
C10_ReturnsTop ==
    [][ (pc = "dispatch" /\ i >= Len(program))
            => /\ pc' = "returned"
               /\ result' = IF stack = <<>> THEN None ELSE Some(stack[Len(stack)]) ]_vars

\* A program has run to its end over a stack of two cells and returned the top.
C10_Witness ==
    /\ pc = "returned"
    /\ program = <<Lit(I64(1)), Lit(I64(2)), Plain("Dup")>>
    /\ i = Len(program)
    /\ stack = <<I64(1), I64(2)>>
    /\ result = Some(I64(2))

\* The empty program has returned no value at once.
C10_WitnessEmpty ==
    /\ pc = "returned"
    /\ program = <<>>
    /\ steps = 0
    /\ result = None

(***************************************************************************)
(* C11                                                                     *)
(***************************************************************************)

\* What each word of the sources is to become: <<the instruction>>, or nothing
\* for a word that is no opcode, no 64-bit integer and no label.
Expected(w) ==
    CASE w = <<"+">> -> <<Plain("Add")>>
      [] w = <<"-">> -> <<Plain("Sub")>>
      [] w = <<"*">> -> <<Plain("Mul")>>
      [] w = <<"/">> -> <<Plain("Div")>>
      [] w = <<"l", "o", "a", "d">> -> <<Plain("Load")>>
      [] w = <<"s", "t", "o", "r", "e">> -> <<Plain("Store")>>
      [] w = <<"j", "m", "p">> -> <<Plain("Jmp")>>
      [] w = <<"c", "j", "m", "p">> -> <<Plain("CJmp")>>
      [] w = <<".">> -> <<Plain("Put")>>
      [] w = <<"d", "u", "p">> -> <<Plain("Dup")>>
      [] w = <<"s", "w", "a", "p">> -> <<Plain("Swap")>>
      [] w = <<"=">> -> <<Plain("Eq")>>
      [] w = <<"<">> -> <<Plain("Lt")>>
      [] w = <<">">> -> <<Plain("Gt")>>
      [] w = <<"0">> -> <<Lit(I64(0))>>
      [] w = <<"1">> -> <<Lit(I64(1))>>
      [] w = <<"-", "1">> -> <<Lit(I64(-1))>>
      [] w = <<"+", "5">> -> <<Lit(I64(5))>>
      [] w = <<"1", "2">> -> <<Lit(I64(12))>>
      [] w = <<"-", "0">> -> <<Lit(I64(0))>>
      [] w = <<"9", "2", "2", "3", "3", "7", "2", "0", "3", "6", "8", "5", "4", "7", "7", "5", "8", "0", "7">> -> <<Lit(I64Max)>>
      [] w = <<"-", "9", "2", "2", "3", "3", "7", "2", "0", "3", "6", "8", "5", "4", "7", "7", "5", "8", "0", "8">> -> <<Lit(I64Min)>>
      [] w = <<"0", ":">> -> <<Label(0)>>
      [] w = <<"1", ":">> -> <<Label(1)>>
      [] w = <<"+", "2", ":">> -> <<Label(2)>>
      [] OTHER -> <<>>

\* w is the first token of what is left of the source, after n characters of
\* white space.
IsNextToken(w, n) ==
    /\ \A k \in 1..n : rest[k] \in WhiteSpace
    /\ Len(rest) >= n + Len(w)
    /\ SubSeq(rest, n + 1, n + Len(w)) = w
    /\ (Len(rest) > n + Len(w) => rest[n + Len(w) + 1] \in WhiteSpace)

\* The tokens of a text: the places where a word starts.
NumTokens(text) ==
    Cardinality({k \in 1..Len(text) :
                     text[k] \notin WhiteSpace /\ (k = 1 \/ text[k - 1] \in WhiteSpace)})

\* C11: codegen takes the tokens of the source in order and pushes exactly one
\* instruction for each: the opcode of an opcode token, Lit for a token that
\* parses as an i64, Label(id) for a non-negative integer followed by a colon.
\* On any other token it panics and returns no instructions.  When it returns
\* there are as many instructions as tokens.
C11_Codegen ==
    /\ [][ pc = "codegen"
             => /\ \A w \in Words : \A n \in 0..Len(rest) :
                       IsNextToken(w, n)
                           => IF Expected(w) = <<>>
                              THEN pc' = "panicked" /\ tokens' = <<>>
                              ELSE /\ pc' = "codegen"
                                   /\ tokens' = Append(tokens, Expected(w)[1])
                                   /\ rest' = SubSeq(rest, n + Len(w) + 1, Len(rest))
                /\ (\A k \in 1..Len(rest) : rest[k] \in WhiteSpace)
                       => (pc' = "compiled" /\ tokens' = tokens) ]_vars
    /\ [](pc = "compiled" => Len(tokens) = NumTokens(source))
    /\ [](pc = "codegen" => Len(tokens) + NumTokens(rest) = NumTokens(source))

\* A signed literal and a signed label, between white space, have been compiled.
C11_Witness ==
    /\ pc = "compiled"
    /\ source = <<"\n", "+", "5", "\t", " ", "+", "2", ":", " ">>
    /\ tokens = <<Lit(I64(5)), Label(2)>>

\* The two lines of a CRLF file have been compiled.
C11_WitnessCRLF ==
    /\ pc = "compiled"
    /\ source = <<"1", "2", "\r", "\n", "l", "o", "a", "d", "\r", "\n">>
    /\ tokens = <<Lit(I64(12)), Plain("Load")>>

\* The second token was a label with a minus sign: codegen panicked.
C11_WitnessAbort ==
    /\ pc = "panicked"
    /\ source = <<"l", "o", "a", "d", " ", "-", "0", ":">>
    /\ tokens = <<>>
    /\ output = <<>>

(***************************************************************************)
(* C12                                                                     *)
(***************************************************************************)

\* C12, as it is stated: Swap on a stack of two cells or more leaves the stack
\* as it was.
C12_SwapIsNoOp ==
    [][ (AtOp("Swap") /\ Len(stack) >= 2) => stack' = stack ]_vars

\* C12, as the code has it: Swap on a stack of two cells or more exchanges the
\* top two cells and leaves the cells below, and the memory, as they were.
C12_SwapExchanges ==
    [][ (AtOp("Swap") /\ Len(stack) >= 2)
            => /\ pc' = "dispatch"
               /\ Len(stack') = Len(stack)
               /\ stack'[Len(stack)] = stack[Len(stack) - 1]
               /\ stack'[Len(stack) - 1] = stack[Len(stack)]
               /\ SubSeq(stack', 1, Len(stack) - 2) = SubSeq(stack, 1, Len(stack) - 2)
               /\ memory' = memory ]_vars

\* Swap has exchanged 1 and 2 over one further cell.
C12_Witness ==
    /\ pc = "dispatch"
    /\ program = BelowSetup(1) \o <<Lit(I64(1)), Lit(I64(2)), Plain("Swap")>>
    /\ i = 4
    /\ stack = <<I64(11), I64(2), I64(1)>>

(***************************************************************************)
(* C13                                                                     *)
(***************************************************************************)

\* a < b as integers, on the limbs: the signed top limb decides, then the
\* middle one, then the low one.
Less(a, b) ==
    LET x == Limbs(a)  y == Limbs(b)
    IN  \/ x[3] < y[3]
        \/ x[3] = y[3] /\ x[2] < y[2]
        \/ x[3] = y[3] /\ x[2] = y[2] /\ x[1] < y[1]

\* What Lt leaves of a stack: over the cells below the two operands, 1 when the
\* first cell popped is less than the second and 0 when not; 0 alone from a
\* stack of fewer than two cells.
AfterLt(s) ==
    IF Len(s) < 2 THEN <<I64(0)>>
    ELSE Append(SubSeq(s, 1, Len(s) - 2),
                IF Less(s[Len(s)], s[Len(s) - 1]) THEN I64(1) ELSE I64(0))

\* C13: Gt compares as Lt does.  A step of either leaves the stack that Lt
\* leaves, 1 pushed exactly when the first cell popped is less than the second,
\* and on every stack reached the two have one and the same effect.
C13_GtMirrorsLt ==
    /\ [][ (Fetch /\ program[i + 1].op \in {"Lt", "Gt"})
               => (pc' = "dispatch" /\ stack' = AfterLt(stack)) ]_vars
    /\ [](ExecGt(stack, memory, i) = ExecLt(stack, memory, i))

\* Gt has popped 2, then 1, and pushed 0 although 2 > 1.
C13_Witness ==
    /\ pc = "dispatch"
    /\ program = <<Lit(I64(1)), Lit(I64(2)), Plain("Gt")>>
    /\ i = 3
    /\ stack = <<I64(0)>>

(***************************************************************************)
(* C14                                                                     *)
(***************************************************************************)

\* The dispatch loop is about to take a jump to the label id: a Jmp, or a CJmp
\* over a condition that is not zero, with id, an entry of the table, on top.
TakenJump(id) ==
    /\ Fetch
    /\ \/ program[i + 1].op = "Jmp" /\ Len(stack) >= 1
       \/ /\ program[i + 1].op = "CJmp"
          /\ Len(stack) >= 2
          /\ stack[Len(stack) - 1] # Zero64
    /\ id < Len(jump_table)
    /\ stack[Len(stack)] = I64(id)

\* C14, as it is stated: a taken jump sets the pointer to jump_table[target] and
\* does not advance it, so that the instruction at that index is dispatched
\* next; after any other instruction that lets the loop go on the pointer is
\* one further.
C14_JumpSetsPointer ==
    [][ /\ \A id \in 0..2 :
               TakenJump(id) => (pc' = "dispatch" /\ i' = jump_table[id + 1])
        /\ (Fetch /\ pc' = "dispatch" /\ ~(\E id \in 0..2 : TakenJump(id)))
               => i' = i + 1 ]_vars

\* C14, as the code has it: `i += 1` follows the jump too, so that the pointer
\* is one past jump_table[target] and the instruction at jump_table[target]
\* itself is not dispatched.
C14_JumpLandsOnePast ==
    [][ /\ \A id \in 0..2 :
               TakenJump(id) => (pc' = "dispatch" /\ i' = jump_table[id + 1] + 1)
        /\ (Fetch /\ pc' = "dispatch" /\ ~(\E id \in 0..2 : TakenJump(id)))
               => i' = i + 1 ]_vars

\* A second program has jumped by a label of the first one, whose entry is the
\* index of the Jmp itself: the pointer is one past it, at the last instruction.
C14_Witness ==
    /\ runs = 2
    /\ pc = "dispatch"
    /\ program = <<Lit(I64(0)), Plain("Jmp"), Lit(I64(8))>>
    /\ jump_table = <<1>>
    /\ steps = 2
    /\ i = 2

(***************************************************************************)
(* C15                                                                     *)
(***************************************************************************)

\* Label(id) occurs in the program, and the index of its last occurrence.
Occurs(id) == \E k \in 1..Len(program) : program[k] = Label(id)
LastLabel(id) ==
    CHOOSE k \in 0..(Len(program) - 1) :
        /\ program[k + 1] = Label(id)
        /\ \A j \in (k + 1)..(Len(program) - 1) : program[j + 1] # Label(id)

\* C15: a label defined again overwrites.  In the pre-pass a Label whose id the
\* table holds sets that entry and leaves the size; after the pre-pass of a
\* program on a fresh engine each entry is the index of the last Label of its id
\* and the table has one entry per id; every jump taken to an id, also one
\* before that last Label, continues from the last Label of the id (with the
\* pointer one past it).
C15_Redefinition ==
    /\ [][ \A id \in 0..2 :
               (pc = "populate" /\ i < Len(program) /\ program[i + 1] = Label(id)
                   /\ id < Len(jump_table))
                   => /\ pc' = "populate"
                      /\ Len(jump_table') = Len(jump_table)
                      /\ jump_table'[id + 1] = i ]_vars
    /\ [](pc = "dispatch"
              => /\ \A id \in 0..2 :
                        Occurs(id) => (id < Len(jump_table)
                                          /\ jump_table[id + 1] = LastLabel(id))
                 /\ Len(jump_table) = Cardinality({id \in 0..2 : Occurs(id)}))
    /\ [][ \A id \in 0..2 : TakenJump(id) => i' = LastLabel(id) + 1 ]_vars

\* A Jmp between two Labels of id 0 has jumped forward, past the second one.
C15_Witness ==
    /\ pc = "dispatch"
    /\ program = <<Label(0), Lit(I64(0)), Plain("Jmp"), Label(0)>>
    /\ jump_table = <<3>>
    /\ steps = 3
    /\ i = 4

(***************************************************************************)
(* C16                                                                     *)
(***************************************************************************)

\* y / x, rounded towards zero, for the literals of the programs: x is not 0,
\* and y / x is not i64::MIN / -1.
Quotient(y, x) ==
    CASE x = I64(1) -> y
      [] x = I64(-1) ->
            (CASE y = I64(-1) -> I64(1)
               [] y = I64(0) -> I64(0)
               [] y = I64(1) -> I64(-1)
               [] y = I64(2) -> I64(-2)
               [] y = I64Max -> <<1, 0, 0, 0, 0, 0, 0, 128>>)
      [] x = I64(2) ->
            (CASE y = I64(2) -> I64(1)
               [] y = I64Max -> <<255, 255, 255, 255, 255, 255, 255, 63>>
               [] y = I64Min -> <<0, 0, 0, 0, 0, 0, 0, 192>>
               [] OTHER -> I64(0))
      [] x = I64Max ->
            (CASE y = I64Max -> I64(1)
               [] y = I64Min -> I64(-1)
               [] OTHER -> I64(0))
      [] x = I64Min -> IF y = I64Min THEN I64(1) ELSE I64(0)

\* C16: the cell popped first is the left operand.  With x pushed before y, Sub
\* returns y - x, where that is an i64, and Div returns y / x, where x is not 0
\* and the quotient is an i64.
C16_OperandOrder ==
    \A x \in Lits, y \in Lits :
        /\ (program = <<Lit(x), Lit(y), Plain("Sub")>> /\ Finished
               /\ \E r \in Lits \cup {WrappingSub(y, x)} : IsSum(y, r, x))
               => /\ pc = "returned"
                  /\ result # None
                  /\ IsSum(y, result[1], x)
        /\ (program = <<Lit(x), Lit(y), Plain("Div")>> /\ Finished
               /\ x # I64(0) /\ ~(y = I64Min /\ x = I64(-1)))
               => /\ pc = "returned"
                  /\ result = Some(Quotient(y, x))

\* Lit(2), Lit(i64::MIN), Div has returned i64::MIN / 2, and not 2 / i64::MIN.
C16_Witness ==
    /\ pc = "returned"
    /\ program = <<Lit(I64(2)), Lit(I64Min), Plain("Div")>>
    /\ result = Some(<<0, 0, 0, 0, 0, 0, 0, 192>>)

\* Lit(2), Lit(1), Sub has returned 1 - 2.
C16_WitnessSub ==
    /\ pc = "returned"
    /\ program = <<Lit(I64(2)), Lit(I64(1)), Plain("Sub")>>
    /\ result = Some(I64(-1))

(***************************************************************************)
(* C17                                                                     *)
(***************************************************************************)

\* The cell on top of the stack is no id that the jump table has an entry for:
\* it is negative, or at least the table's length.
NoEntryOnTop == \A id \in 0..(Len(jump_table) - 1) : stack[Len(stack)] # I64(id)

\* C17, as it is stated: a Jmp, and a CJmp, that pops a target without an entry
\* in the jump table panics, and the pointer stays; a jump to a label defined
\* further on in the program goes through.
C17_UndefinedTargetAborts ==
    /\ [][ (/\ Fetch
            /\ \/ program[i + 1].op = "Jmp" /\ Len(stack) >= 1
               \/ program[i + 1].op = "CJmp" /\ Len(stack) >= 2
            /\ NoEntryOnTop)
               => (pc' = "panicked" /\ i' = i) ]_vars
    /\ [][ \A id \in 0..2 :
               (TakenJump(id) /\ Occurs(id) /\ LastLabel(id) > i)
                   => (pc' = "dispatch" /\ i' > i) ]_vars

\* C17, as the code has it: a Jmp, and a CJmp over a condition that is not zero,
\* panics on a target without an entry, with the pointer where it was; a CJmp
\* over a zero condition does not look its target up and goes on to the next
\* instruction whatever the target is; a jump to a label defined further on
\* goes through.
C17_TakenJumpAborts ==
    /\ [][ (/\ Fetch
            /\ \/ program[i + 1].op = "Jmp" /\ Len(stack) >= 1
               \/ /\ program[i + 1].op = "CJmp"
                  /\ Len(stack) >= 2
                  /\ stack[Len(stack) - 1] # Zero64
            /\ NoEntryOnTop)
               => (pc' = "panicked" /\ i' = i) ]_vars
    /\ [][ (AtOp("CJmp") /\ Len(stack) >= 2 /\ stack[Len(stack) - 1] = Zero64)
               => /\ pc' = "dispatch"
                  /\ i' = i + 1
                  /\ stack' = SubSeq(stack, 1, Len(stack) - 2) ]_vars
    /\ [][ \A id \in 0..2 :
               (TakenJump(id) /\ Occurs(id) /\ LastLabel(id) > i)
                   => (pc' = "dispatch" /\ i' > i) ]_vars

\* A CJmp over a zero condition, to label 1 that the program does not define,
\* was passed: the call has returned.
C17_Witness ==
    /\ pc = "returned"
    /\ program = <<Lit(I64(0)), Lit(I64(1)), Plain("CJmp")>>
    /\ jump_table = <<>>
    /\ steps = 3
    /\ panic = ""

(***************************************************************************)
(* C18                                                                     *)
(***************************************************************************)

\* C18: Eq, Lt and Gt never end the call.  On a stack of fewer than two cells
\* they take the cells there are and push one: Eq pushes 1 on an empty stack and
\* 0 on a stack of one cell, Lt and Gt push 0 on both; the loop goes on with
\* the next instruction.
C18_ComparisonsUnderflow ==
    /\ [][ (Fetch /\ program[i + 1].op \in {"Eq", "Lt", "Gt"})
               => (pc' = "dispatch" /\ i' = i + 1 /\ result' = None) ]_vars
    /\ [][ (Fetch /\ program[i + 1].op \in {"Eq", "Lt", "Gt"} /\ Len(stack) < 2)
               => stack' = << IF program[i + 1].op = "Eq" /\ stack = <<>>
                              THEN I64(1) ELSE I64(0) >> ]_vars

\* Eq alone, on a fresh engine, has returned 1.
C18_Witness ==
    /\ pc = "returned"
    /\ program = <<Plain("Eq")>>
    /\ steps = 1
    /\ result = Some(I64(1))
    /\ stack = <<>>

\* Lt on one cell has pushed 0, and the instruction after it was dispatched.
C18_WitnessOneCell ==
    /\ pc = "returned"
    /\ program = <<Lit(I64(1)), Plain("Lt"), Lit(I64(3))>>
    /\ steps = 3
    /\ result = Some(I64(3))
    /\ stack = <<I64(0)>>

(***************************************************************************)
(* C19                                                                     *)
(***************************************************************************)

\* C19: the stack lives on between calls, and a call changes it.  At the end of
\* the program the cell returned leaves the stack, which is one cell shorter
\* (or stays empty); the next call starts on, and its pre-pass keeps, the cells
\* left; an instruction of two checked pops that finds one cell ends the call
\* with that cell gone.
C19_StackPersists ==
    /\ [][ (pc = "dispatch" /\ i >= Len(program))
               => /\ pc' = "returned"
                  /\ stack' = IF stack = <<>> THEN <<>>
                              ELSE SubSeq(stack, 1, Len(stack) - 1) ]_vars
    /\ [][ (pc \in {"returned", "populate"} /\ pc' \in {"populate", "dispatch"})
               => stack' = stack ]_vars
    /\ [][ (Fetch /\ Len(stack) = 1
              /\ program[i + 1].op \in {"Add", "Sub", "Mul", "Div", "Store", "CJmp", "Swap"})
               => (pc' = "returned" /\ result' = None /\ stack' = <<>>) ]_vars

\* A second program, Add alone, has added the two cells a first one left under
\* the value it returned.
C19_Witness ==
    /\ runs = 2
    /\ pc = "returned"
    /\ program = <<Plain("Add")>>
    /\ result = Some(I64(3))
    /\ stack = <<>>

\* Add on one cell has ended the call: no value is returned and the cell is
\* gone.
C19_WitnessUnderflow ==
    /\ runs = 1
    /\ pc = "returned"
    /\ program = <<Lit(I64(1)), Plain("Add")>>
    /\ steps = 2
    /\ result = None
    /\ stack = <<>>

(***************************************************************************)
(* C20                                                                     *)
(***************************************************************************)

\* C20: on a fresh engine, from the end of the pre-pass on, the jump table has
\* one entry per label id of the program, each the index of a Label of that id
\* within the program; no step of the dispatch loop changes the table; the
\* pointer is never beyond the end of the program, and no instruction is
\* dispatched with the pointer at the end.
C20_JumpTableWellFormed ==
    /\ [](pc = "dispatch"
              => /\ Len(jump_table) = Cardinality({id \in 0..2 : Occurs(id)})
                 /\ \A id \in 0..(Len(jump_table) - 1) :
                        /\ jump_table[id + 1] < Len(program)
                        /\ program[jump_table[id + 1] + 1] = Label(id))
    /\ [][ pc = "dispatch" => jump_table' = jump_table ]_vars
    /\ [](pc = "dispatch" => i <= Len(program))
    /\ [][ steps' = steps + 1 => i < Len(program) ]_vars

\* Three Labels of two ids have been passed in the dispatch loop: the table
\* holds the later Label of id 0.
C20_Witness ==
    /\ pc = "dispatch"
    /\ program = <<Label(0), Label(1), Label(0), Plain("Jmp")>>
    /\ jump_table = <<2, 1>>
    /\ steps = 3
    /\ i = 3
====
